---- MODULE Spec2Model ----
(***************************************************************************)
(* A model of the PARC data pipeline (parc/IO.py) and of the recurrent     *)
(* part of the PARC network (parc/model.py).                               *)
(*                                                                         *)
(* Tensors are functions from 0-based index tuples to values, wrapped in   *)
(* a record that also carries the shape.  Floating point numbers are       *)
(* modelled as exact rationals <<numerator, denominator>> in lowest terms  *)
(* with a positive denominator; <<0, 0>> is NaN and <<1, 0>>, <<-1, 0>>    *)
(* are the infinities numpy produces when dividing by zero.                *)
(***************************************************************************)
EXTENDS Integers, Sequences, FiniteSets, TLC

VARIABLES
    \* ---- reshape_old / reshape_new (IO.py) ----
    rpc,            \* position of the layout-conversion driver
    field5d,        \* the 5-D tensor handed to reshape_old
    old_data,       \* the 4-D tensor returned by reshape_old
    new_data,       \* the 5-D tensor returned by reshape_new
    channels,       \* the channels argument of reshape_new
    \* ---- wave_map (IO.py) ----
    wpc,            \* position inside wave_map
    wm_width,       \* argument width
    wm_height,      \* argument height
    wm,             \* the local array wave_map
    w,              \* the loop variable w
    \* ---- split_data (IO.py) ----
    spc,            \* position inside split_data
    data_in,        \* argument data_in, along its case axis
    splits,         \* argument splits: three proportions
    bounds3,        \* the locals <<train, valid, test>> after int()
    split_out,      \* the returned slices
    \* ---- parc (model.py), recurrent part ----
    mpc,            \* position inside parc
    numTS,          \* argument numTS
    T0,             \* the initial field input
    feature_map,    \* the static feature map produced by the encoder
    temp1,          \* the module-level layer temp1 (derivative)
    temp2,          \* the module-level layer temp2 (integration)
    current_T,      \* the local current_T
    T_output_sr,    \* the list T_output_sr
    Tdot_output_sr, \* the list Tdot_output_sr
    step_i,         \* the loop variable i
    T_output,       \* first model output
    Tdot_output,    \* second model output
    \* ---- parse_data (IO.py) ----
    ppc,                    \* position inside parse_data
    dir_data,               \* what has been read from the data directory
    case_numbers,           \* number of entries of the microstructures directory
    time_steps,             \* argument time_steps
    del_t,                  \* argument del_t
    width,                  \* img.width of data_01.pgm
    height,                 \* img.height of data_01.pgm
    microstructure_data,    \* (case, x, y, 2)
    output_data,            \* (case, x, y, time, 4)
    initial_vals,           \* (case, x, y, 2)
    normalizing_constants,  \* the dictionary of minima and maxima
    raw_output,             \* output_data as it was when the constants were taken
    case_idx,               \* loop variable case_idx (1-based)
    time_idx                \* loop variable time_idx (1-based)

reshapeVars == <<rpc, field5d, old_data, new_data, channels>>

waveVars == <<wpc, wm_width, wm_height, wm, w>>

splitVars == <<spc, data_in, splits, bounds3, split_out>>

parcVars == <<mpc, numTS, T0, feature_map, temp1, temp2, current_T, T_output_sr,
              Tdot_output_sr, step_i, T_output, Tdot_output>>

parseVars == <<ppc, dir_data, case_numbers, time_steps, del_t, width, height,
               microstructure_data, output_data, initial_vals, normalizing_constants,
               raw_output, case_idx, time_idx>>

vars == <<reshapeVars, waveVars, splitVars, parcVars, parseVars>>

exceptReshape == <<waveVars, splitVars, parcVars, parseVars>>

exceptWave == <<reshapeVars, splitVars, parcVars, parseVars>>

exceptSplit == <<reshapeVars, waveVars, parcVars, parseVars>>

exceptParc == <<reshapeVars, waveVars, splitVars, parseVars>>

exceptParse == <<reshapeVars, waveVars, splitVars, parcVars>>

(***************************************************************************)
(* Bounds of the model.                                                    *)
(***************************************************************************)
MaxReshapeCases == 2
MaxReshapeImg == 2
MaxReshapeSteps == 3
MaxWaveDim == 6
MaxSplitCases == 20
MaxNumTS == 20
MaxSeed == 2
FeatureChannels == 2
MaxCases == 2
MaxTimeSteps == 2

(***************************************************************************)
(* Exact rational arithmetic standing for numpy's float arithmetic.        *)
(***************************************************************************)
Abs(n) == IF n < 0 THEN -n ELSE n

Sgn(n) == IF n < 0 THEN -1 ELSE IF n > 0 THEN 1 ELSE 0

RECURSIVE GCD(_, _)
GCD(a, b) == IF b = 0 THEN a ELSE GCD(b, a % b)

\* The canonical representative of n/d.
Norm(n, d) ==
    IF d = 0 THEN <<Sgn(n), 0>>
    ELSE LET g == GCD(Abs(n), Abs(d))
             s == IF d < 0 THEN -1 ELSE 1
         IN  <<(s * n) \div g, (s * d) \div g>>

R(v) == <<v, 1>>

NaN == <<0, 0>>

IsNaN(a) == a = NaN

RAdd(a, b) == Norm(a[1] * b[2] + b[1] * a[2], a[2] * b[2])

RSub(a, b) == Norm(a[1] * b[2] - b[1] * a[2], a[2] * b[2])

RMul(a, b) == Norm(a[1] * b[1], a[2] * b[2])

RDiv(a, b) == Norm(a[1] * b[2], a[2] * b[1])

\* a < b and a > b as IEEE comparisons: FALSE whenever an operand is NaN.
RLess(a, b) == ~IsNaN(a) /\ ~IsNaN(b) /\
    IF a[2] = 0 \/ b[2] = 0 THEN (a[2] = 0 /\ a[1] < 0 /\ b # a) \/ (b[2] = 0 /\ b[1] > 0 /\ b # a)
    ELSE a[1] * b[2] < b[1] * a[2]

RGreater(a, b) == RLess(b, a)

RLeq(a, b) == RLess(a, b) \/ (~IsNaN(a) /\ a = b)

\* np.amax / np.amin over a non-empty set of values: NaN when any value is NaN.
RMax(S) == IF NaN \in S THEN NaN ELSE CHOOSE m \in S : \A v \in S : RLeq(v, m)

RMin(S) == IF NaN \in S THEN NaN ELSE CHOOSE m \in S : \A v \in S : RLeq(m, v)

\* int(x) of a float: truncation towards zero.
Trunc(a) == IF a[1] >= 0 THEN a[1] \div a[2] ELSE -((-a[1]) \div a[2])

(***************************************************************************)
(* Tensors.                                                                *)
(***************************************************************************)
Range(n) == 0 .. (n - 1)

Idx4(s) == Range(s[1]) \X Range(s[2]) \X Range(s[3]) \X Range(s[4])

Idx5(s) == Range(s[1]) \X Range(s[2]) \X Range(s[3]) \X Range(s[4]) \X Range(s[5])

\* np.zeros(shape)
Zeros4(s) == [shape |-> s, data |-> [i \in Idx4(s) |-> 0]]

Zeros5(s) == [shape |-> s, data |-> [i \in Idx5(s) |-> 0]]

NoTensor == [shape |-> <<>>, data |-> <<>>]

(***************************************************************************)
(* reshape_old: 5-D (case, x, y, time, channel) to 4-D (case, x, y, k).    *)
(***************************************************************************)
\* old_data[case_idx, :, :, k] = new_data[case_idx, :, :, t, ch]
AssignOld(old, c, k, new, t, ch) ==
    [old EXCEPT !.data =
        [i \in DOMAIN old.data |->
            IF i[1] = c /\ i[4] = k THEN new.data[<<c, i[2], i[3], t, ch>>]
            ELSE old.data[i]]]

\* Position of the rate pair of 1-based timestep time_idx (IO.py line 267).
MutOldRateIndex(n_steps, t_idx) == (2 * (n_steps - 1)) + (2 * t_idx) - 2

OldRateIndex(n_steps, t_idx) == (2 * (n_steps - 1)) + (2 * t_idx)

\* Position of the field pair of 1-based timestep time_idx (IO.py line 260).
OldFieldIndex(t_idx) == (2 * t_idx) - 2

RECURSIVE OldFieldLoop(_, _, _, _, _)
OldFieldLoop(old, new, c, t_idx, n_steps) ==
    IF t_idx > n_steps THEN old
    ELSE LET o1 == AssignOld(old, c, OldFieldIndex(t_idx), new, t_idx - 1, 0)
             o2 == AssignOld(o1, c, OldFieldIndex(t_idx) + 1, new, t_idx - 1, 1)
         IN  OldFieldLoop(o2, new, c, t_idx + 1, n_steps)

RECURSIVE OldRateLoop(_, _, _, _, _)
OldRateLoop(old, new, c, t_idx, n_steps) ==
    IF t_idx > n_steps THEN old
    ELSE LET o1 == AssignOld(old, c, OldRateIndex(n_steps, t_idx), new, t_idx - 1, 2)
             o2 == AssignOld(o1, c, OldRateIndex(n_steps, t_idx) + 1, new, t_idx - 1, 3)
         IN  OldRateLoop(o2, new, c, t_idx + 1, n_steps)

RECURSIVE OldCaseLoop(_, _, _, _, _)
OldCaseLoop(old, new, c_idx, n_cases, n_steps) ==
    IF c_idx >= n_cases THEN old
    ELSE OldCaseLoop(
            OldRateLoop(OldFieldLoop(old, new, c_idx, 1, n_steps),
                        new, c_idx, 1, n_steps),
            new, c_idx + 1, n_cases, n_steps)

reshape_old(new) ==
    LET n_cases == new.shape[1]
        n_steps == new.shape[4]
        img_size == new.shape[3]
    IN  OldCaseLoop(Zeros4(<<n_cases, img_size, img_size, n_steps * 4>>),
                    new, 0, n_cases, n_steps)

(***************************************************************************)
(* reshape_new: 4-D (case, x, y, k) to 5-D (case, x, y, time, channel).    *)
(***************************************************************************)
\* new_data[case_idx, :, :, t, ch] = old_data[case_idx, :, :, k]
AssignNew(new, c, t, ch, old, k) ==
    [new EXCEPT !.data =
        [i \in DOMAIN new.data |->
            IF i[1] = c /\ i[4] = t /\ i[5] = ch THEN old.data[<<c, i[2], i[3], k>>]
            ELSE new.data[i]]]

\* Position of the rate pair of 0-based timestep time_idx (IO.py line 304).
MutNewRateIndex(n_steps, t_idx) == (2 * (n_steps - 1)) + (2 * t_idx)

NewRateIndex(n_steps, t_idx) == (2 * n_steps) + (2 * t_idx)

RECURSIVE NewFieldLoop(_, _, _, _, _)
NewFieldLoop(new, old, c, t_idx, n_steps) ==
    IF t_idx >= n_steps THEN new
    ELSE LET n1 == AssignNew(new, c, t_idx, 0, old, 2 * t_idx)
             n2 == AssignNew(n1, c, t_idx, 1, old, (2 * t_idx) + 1)
         IN  NewFieldLoop(n2, old, c, t_idx + 1, n_steps)

RECURSIVE NewRateLoop(_, _, _, _, _)
NewRateLoop(new, old, c, t_idx, n_steps) ==
    IF t_idx >= n_steps THEN new
    ELSE LET n1 == AssignNew(new, c, t_idx, 2, old, NewRateIndex(n_steps, t_idx))
             n2 == AssignNew(n1, c, t_idx, 3, old, NewRateIndex(n_steps, t_idx) + 1)
         IN  NewRateLoop(n2, old, c, t_idx + 1, n_steps)

RECURSIVE NewCaseLoop(_, _, _, _, _, _)
NewCaseLoop(new, old, c_idx, n_cases, n_steps, chans) ==
    IF c_idx >= n_cases THEN new
    ELSE LET n4 == IF chans = 4
                   THEN NewRateLoop(NewFieldLoop(new, old, c_idx, 0, n_steps),
                                    old, c_idx, 0, n_steps)
                   ELSE new
             n2 == IF chans = 2
                   THEN NewFieldLoop(n4, old, c_idx, 0, n_steps)
                   ELSE n4
         IN  NewCaseLoop(n2, old, c_idx + 1, n_cases, n_steps, chans)

reshape_new(old, chans) ==
    LET n_cases == old.shape[1]
        n_steps == Trunc(Norm(old.shape[4], chans))
        img_size == old.shape[3]
    IN  NewCaseLoop(Zeros5(<<n_cases, img_size, img_size, n_steps, chans>>),
                    old, 0, n_cases, n_steps, chans)

(***************************************************************************)
(* Driver of the layout conversion: flatten a tensor, then expand it.      *)
(***************************************************************************)
\* The 5-D tensors handed to the converter: every entry distinct, every
\* entry equal, or entries that depend on timestep and channel only.
FieldTensor(s, kind) ==
    [shape |-> s,
     data |-> [i \in Idx5(s) |->
        CASE kind = "distinct" ->
                1 + i[5] + 4 * (i[4] + s[4] * (i[3] + s[3] * (i[2] + s[2] * i[1])))
          [] kind = "ones" -> 1
          [] OTHER -> 1 + i[5] + 10 * i[4]]]

TensorKinds == {"distinct", "ones", "planar"}

ReshapeIdle ==
    /\ rpc = "idle"
    /\ field5d = NoTensor
    /\ old_data = NoTensor
    /\ new_data = NoTensor
    /\ channels = 0

WaveIdle ==
    /\ wpc = "idle"
    /\ wm_width = 0
    /\ wm_height = 0
    /\ wm = <<>>
    /\ w = 0

SplitIdle ==
    /\ spc = "idle"
    /\ data_in = <<>>
    /\ splits = <<>>
    /\ bounds3 = <<>>
    /\ split_out = <<>>

ParcIdle ==
    /\ mpc = "idle"
    /\ numTS = 0
    /\ T0 = <<>>
    /\ feature_map = <<>>
    /\ temp1 = <<>>
    /\ temp2 = <<>>
    /\ current_T = <<>>
    /\ T_output_sr = <<>>
    /\ Tdot_output_sr = <<>>
    /\ step_i = 0
    /\ T_output = <<>>
    /\ Tdot_output = <<>>

ParseIdle ==
    /\ ppc = "idle"
    /\ dir_data = <<>>
    /\ case_numbers = 0
    /\ time_steps = 0
    /\ del_t = 0
    /\ width = 0
    /\ height = 0
    /\ microstructure_data = NoTensor
    /\ output_data = NoTensor
    /\ initial_vals = NoTensor
    /\ normalizing_constants = <<>>
    /\ raw_output = NoTensor
    /\ case_idx = 0
    /\ time_idx = 0

InitReshape ==
    /\ WaveIdle /\ SplitIdle /\ ParcIdle /\ ParseIdle
    /\ rpc = "input"
    /\ \E c \in 1 .. MaxReshapeCases, n \in 1 .. MaxReshapeImg, T \in 1 .. MaxReshapeSteps,
          kind \in TensorKinds :
            field5d = FieldTensor(<<c, n, n, T, 4>>, kind)
    /\ old_data = NoTensor
    /\ new_data = NoTensor
    /\ channels = 0

CallReshapeOld ==
    /\ rpc = "input"
    /\ old_data' = reshape_old(field5d)
    /\ rpc' = "flattened"
    /\ UNCHANGED <<field5d, new_data, channels, exceptReshape>>

CallReshapeNew ==
    /\ rpc = "flattened"
    /\ \E ch \in {2, 4} :
        /\ channels' = ch
        /\ new_data' = reshape_new(old_data, ch)
    /\ rpc' = "expanded"
    /\ UNCHANGED <<field5d, old_data, exceptReshape>>

NextReshape == CallReshapeOld \/ CallReshapeNew

SpecReshape == InitReshape /\ [][NextReshape]_vars

(***************************************************************************)
(* Properties of the layout converter.                                     *)
(***************************************************************************)
\* C1: flattening a 5-D tensor of shape (cases, n, n, T, 4) with T >= 2 and
\* expanding the result with channels = 4 gives back a tensor of the same
\* shape with every (case, x, y, t, channel) entry unchanged.
C1_RoundTrip ==
    (rpc = "expanded" /\ channels = 4 /\ field5d.shape[4] >= 2) =>
        /\ new_data.shape = field5d.shape
        /\ DOMAIN new_data.data = DOMAIN field5d.data
        /\ \A i \in DOMAIN field5d.data : new_data.data[i] = field5d.data[i]

\* A round trip of a tensor with several cases, several timesteps and
\* pairwise distinct entries has completed.
C1_Witness ==
    /\ rpc = "expanded" /\ channels = 4
    /\ field5d.shape[1] >= 2 /\ field5d.shape[2] >= 2 /\ field5d.shape[4] >= 2
    /\ \A i, j \in DOMAIN field5d.data : i # j => field5d.data[i] # field5d.data[j]
    /\ new_data = field5d

\* C3 as stated: the flattened width is 4T-2, [0, 2T) holds the field pairs
\* and [2T, 4T-2) holds the rate pairs of timesteps 1..T-1, the rate of
\* timestep 0 being left out.
C3_Original ==
    rpc # "input" =>
        LET T == field5d.shape[4] IN
        /\ old_data.shape[4] = 4 * T - 2
        /\ \A i \in DOMAIN field5d.data :
            /\ i[5] \in {0, 1} =>
                old_data.data[<<i[1], i[2], i[3], 2 * i[4] + i[5]>>] = field5d.data[i]
            /\ (i[5] \in {2, 3} /\ i[4] >= 1) =>
                old_data.data[<<i[1], i[2], i[3], 2 * T + 2 * (i[4] - 1) + (i[5] - 2)>>]
                    = field5d.data[i]

\* C3 amended: the flattened width is 4T; indices [0, 2T) hold the
\* interleaved (temperature, pressure) pairs in timestep order and indices
\* [2T, 4T) hold the interleaved (temperature_rate, pressure_rate) pairs of
\* all T timesteps in order, the rate of timestep 0 included at 2T, 2T+1.
C3_FlattenedLayout ==
    rpc # "input" =>
        LET T == field5d.shape[4] IN
        /\ old_data.shape = <<field5d.shape[1], field5d.shape[3], field5d.shape[3], 4 * T>>
        /\ DOMAIN old_data.data = Idx4(old_data.shape)
        /\ \A i \in DOMAIN field5d.data :
            /\ i[5] \in {0, 1} =>
                old_data.data[<<i[1], i[2], i[3], 2 * i[4] + i[5]>>] = field5d.data[i]
            /\ i[5] \in {2, 3} =>
                old_data.data[<<i[1], i[2], i[3], 2 * T + 2 * i[4] + (i[5] - 2)>>]
                    = field5d.data[i]

\* A tensor with pairwise distinct entries and T >= 2 has been flattened
\* and the rate of timestep 0 sits at index 2T.
C3_Witness ==
    /\ rpc = "flattened"
    /\ field5d.shape[4] >= 2 /\ field5d.shape[1] >= 2
    /\ \A i, j \in DOMAIN field5d.data : i # j => field5d.data[i] # field5d.data[j]
    /\ old_data.data[<<0, 0, 0, 2 * field5d.shape[4]>>] = field5d.data[<<0, 0, 0, 0, 2>>]

(***************************************************************************)
(* wave_map: the normalized-distance channel.                              *)
(***************************************************************************)
\* np.zeros((width, height)): first axis of length width, second of length height.
WaveZeros(wd, ht) == [i \in Range(wd) \X Range(ht) |-> R(0)]

\* wave_map[:, col] = col / width
WaveAssign(map, col, wd) ==
    [i \in DOMAIN map |-> IF i[2] = col THEN Norm(col, wd) ELSE map[i]]

\* Indexing the second axis (length height) with col raises IndexError when
\* col is not below height.
WaveInRange(col, ht) == col < ht

\* The whole function, as called from parse_data.
RECURSIVE WaveLoop(_, _, _, _)
WaveLoop(map, col, wd, ht) ==
    IF col >= wd THEN map
    ELSE IF ~WaveInRange(col, ht) THEN "IndexError"
    ELSE WaveLoop(WaveAssign(map, col, wd), col + 1, wd, ht)

wave_map(wd, ht) == WaveLoop(WaveZeros(wd, ht), 1, wd, ht)

InitWave ==
    /\ ReshapeIdle /\ SplitIdle /\ ParcIdle /\ ParseIdle
    /\ wpc = "loop"
    /\ \E wd \in 1 .. MaxWaveDim, ht \in 1 .. MaxWaveDim :
        /\ wm_width = wd
        /\ wm_height = ht
        /\ wm = WaveZeros(wd, ht)
    /\ w = 1

WaveMapAssign ==
    /\ wpc = "loop"
    /\ w < wm_width
    /\ WaveInRange(w, wm_height)
    /\ wm' = WaveAssign(wm, w, wm_width)
    /\ w' = w + 1
    /\ UNCHANGED <<wpc, wm_width, wm_height, exceptWave>>

WaveMapIndexError ==
    /\ wpc = "loop"
    /\ w < wm_width
    /\ ~WaveInRange(w, wm_height)
    /\ wpc' = "IndexError"
    /\ UNCHANGED <<wm_width, wm_height, wm, w, exceptWave>>

WaveMapReturn ==
    /\ wpc = "loop"
    /\ w >= wm_width
    /\ wpc' = "returned"
    /\ UNCHANGED <<wm_width, wm_height, wm, w, exceptWave>>

NextWave == WaveMapAssign \/ WaveMapIndexError \/ WaveMapReturn

SpecWave == InitWave /\ [][NextWave]_vars

\* C10: for every pair of positive dimensions wave_map ends without error
\* and returns a width-by-height map whose column 0 is zero and whose
\* column k is k/width for every k in 1..width-1.
C10_WaveMapTotal ==
    /\ wpc # "IndexError"
    /\ wpc = "returned" =>
        /\ DOMAIN wm = Range(wm_width) \X Range(wm_height)
        /\ \A r \in Range(wm_width) :
            /\ wm[<<r, 0>>] = R(0)
            /\ \A k \in 1 .. (wm_width - 1) : wm[<<r, k>>] = Norm(k, wm_width)

(***************************************************************************)
(* split_data: train / validation / test slices along the case axis.       *)
(***************************************************************************)
\* A Python slice bound i applied to a sequence of length n.
PyIndex(i, n) ==
    IF i < 0 THEN (IF i + n < 0 THEN 0 ELSE i + n)
    ELSE IF i > n THEN n ELSE i

\* seq[start:stop] of a sequence indexed from 0.
PySlice(seq, start, stop) ==
    LET lo == PyIndex(start, Len(seq))
        hi == PyIndex(stop, Len(seq))
    IN  IF hi <= lo THEN <<>> ELSE SubSeq(seq, lo + 1, hi)

\* A bug: every term is truncated before it is added.
MutSplitBoundsTruncEach(n_cases, sp) ==
    LET t1 == Trunc(RMul(R(n_cases), sp[1]))
        t2 == Trunc(RMul(R(n_cases), sp[2]))
        t3 == Trunc(RMul(R(n_cases), sp[3]))
    IN  <<t1, t1 + t2, t1 + t2 + t3>>

\* A bug: the boundaries are not running sums.
MutSplitBoundsNoSum(n_cases, sp) ==
    <<Trunc(RMul(R(n_cases), sp[1])),
      Trunc(RMul(R(n_cases), sp[2])),
      Trunc(RMul(R(n_cases), sp[3]))>>

\* The locals train, valid, test (IO.py lines 214-219).
SplitBounds(n_cases, sp) ==
    LET train == RMul(R(n_cases), sp[1])
        valid == RAdd(train, RMul(R(n_cases), sp[2]))
        test == RAdd(valid, RMul(R(n_cases), sp[3]))
    IN  <<Trunc(train), Trunc(valid), Trunc(test)>>

\* The six returned slices; output_data is cut at the same case positions
\* as data_in.
split_data(din, dout, sp) ==
    LET b == SplitBounds(Len(dout), sp)
    IN  [X_train |-> PySlice(din, 0, b[1]),
         y_train |-> PySlice(dout, 0, b[1]),
         X_val |-> PySlice(din, b[1], b[2]),
         y_val |-> PySlice(dout, b[1], b[2]),
         test_X |-> PySlice(din, b[2], b[3]),
         test_Y |-> PySlice(dout, b[2], b[3])]

\* The proportions tried, as exact fractions.
Proportions == {<<0, 1>>, <<3, 20>>, <<1, 4>>, <<1, 3>>, <<1, 2>>, <<7, 10>>, <<1, 1>>}

\* A tensor of n cases along its case axis: entry k is case k.
Cases(n) == [k \in 1 .. n |-> k - 1]

InitSplit ==
    /\ ReshapeIdle /\ WaveIdle /\ ParcIdle /\ ParseIdle
    /\ spc = "called"
    /\ \E n \in 1 .. MaxSplitCases : data_in = Cases(n)
    /\ splits \in Proportions \X Proportions \X Proportions
    /\ bounds3 = <<>>
    /\ split_out = <<>>

CallSplitData ==
    /\ spc = "called"
    /\ bounds3' = SplitBounds(Len(data_in), splits)
    /\ split_out' = split_data(data_in, data_in, splits)
    /\ spc' = "returned"
    /\ UNCHANGED <<data_in, splits, exceptSplit>>

NextSplit == CallSplitData

SpecSplit == InitSplit /\ [][NextSplit]_vars

Min2(a, b) == IF a < b THEN a ELSE b

\* The cases lo, lo+1, ..., hi-1 that exist among n cases, in order.
CaseRun(lo, hi, n) ==
    [k \in 1 .. (IF Min2(hi, n) > Min2(lo, n) THEN Min2(hi, n) - Min2(lo, n) ELSE 0)
        |-> Min2(lo, n) + k - 1]

\* C4: the boundaries are the running sums of the proportions times the
\* case count, truncated (train = trunc(n p0), valid = trunc(n p0 + n p1),
\* test = trunc(n p0 + n p1 + n p2)), the slices are the cases [0, train),
\* [train, valid), [valid, test), and 20 cases with [0.7, 0.15, 0.15] give
\* [0, 14), [14, 17), [17, 20).
C4_SplitBoundaries ==
    spc = "returned" =>
        LET n == Len(data_in)
            a1 == splits[1][1]  b1 == splits[1][2]
            a2 == splits[2][1]  b2 == splits[2][2]
            a3 == splits[3][1]  b3 == splits[3][2]
            t1 == (n * a1) \div b1
            t2 == (n * (a1 * b2 + a2 * b1)) \div (b1 * b2)
            t3 == (n * (a1 * b2 * b3 + a2 * b1 * b3 + a3 * b1 * b2)) \div (b1 * b2 * b3)
        IN  /\ bounds3 = <<t1, t2, t3>>
            /\ split_out.X_train = CaseRun(0, t1, n)
            /\ split_out.X_val = CaseRun(t1, t2, n)
            /\ split_out.test_X = CaseRun(t2, t3, n)
            /\ split_out.y_train = split_out.X_train
            /\ split_out.y_val = split_out.X_val
            /\ split_out.test_Y = split_out.test_X
            /\ (n = 20 /\ splits = <<<<7, 10>>, <<3, 20>>, <<3, 20>>>>) =>
                /\ bounds3 = <<14, 17, 20>>
                /\ split_out.X_train = [k \in 1 .. 14 |-> k - 1]
                /\ split_out.X_val = [k \in 1 .. 3 |-> 13 + k]
                /\ split_out.test_X = [k \in 1 .. 3 |-> 16 + k]

\* split_data has returned for proportions whose scaled running sums are
\* not integers, so that truncation took place at two boundaries.
C4_Witness ==
    /\ spc = "returned"
    /\ Len(data_in) = 10
    /\ splits = <<<<1, 4>>, <<1, 4>>, <<1, 2>>>>
    /\ bounds3 = <<2, 5, 10>>
    /\ split_out.X_val = <<2, 3, 4>>

Elems(seq) == {seq[k] : k \in 1 .. Len(seq)}

\* C5: whatever the three proportions, the three slices are pairwise
\* disjoint and contiguous: placed one after the other they are exactly
\* the cases below the final boundary, each once and in order.
C5_SlicesPartition ==
    spc = "returned" =>
        LET tr == split_out.X_train
            va == split_out.X_val
            te == split_out.test_X
        IN  /\ Elems(tr) \cap Elems(va) = {}
            /\ Elems(tr) \cap Elems(te) = {}
            /\ Elems(va) \cap Elems(te) = {}
            /\ tr \o va \o te = CaseRun(0, bounds3[3], Len(data_in))
            /\ split_out.y_train \o split_out.y_val \o split_out.test_Y = tr \o va \o te

\* split_data has returned for proportions that do not sum to 1 and whose
\* boundaries were rounded, with three non-empty slices and cases left over.
C5_Witness ==
    /\ spc = "returned"
    /\ Len(data_in) = 7
    /\ splits = <<<<1, 3>>, <<1, 4>>, <<3, 20>>>>
    /\ split_out.X_train # <<>> /\ split_out.X_val # <<>> /\ split_out.test_X # <<>>
    /\ bounds3[3] < Len(data_in)

(***************************************************************************)
(* parc: the recurrent integrator of the network (model.py).  A tensor is  *)
(* followed at one pixel: it is the sequence of its channel values.  The   *)
(* two Conv2D layers temp1 and temp2 are records of a kernel and a bias;   *)
(* their weights are arbitrary and fixed when the module is loaded.        *)
(***************************************************************************)
\* The loop bound of the recurrence (model.py line 175).
LoopSteps == 19

\* Channels of the field state: input_size[2] and the filters of temp1, temp2.
FieldChannels == 2

RECURSIVE Dot(_, _, _)
Dot(row, x, j) == IF j = 0 THEN 0 ELSE row[j] * x[j] + Dot(row, x, j - 1)

\* The tanh activation on the integer grid: odd, monotone, bounded by 1.
Tanh(x) == IF x > 1 THEN 1 ELSE IF x < -1 THEN -1 ELSE x

\* A Conv2D layer with tanh activation applied to a channel vector.
ApplyLayer(layer, x) ==
    [c \in 1 .. Len(layer.kernel) |->
        Tanh(Dot(layer.kernel[c], x, Len(x)) + layer.bias[c])]

\* A layer with filters output channels over cols input channels.
Layer(filters, cols, seed) ==
    [kernel |-> [c \in 1 .. filters |-> [j \in 1 .. cols |-> ((seed + c * j) % 3) - 1]],
     bias |-> [c \in 1 .. filters |-> ((seed + c) % 3) - 1]]

\* keras.layers.concatenate([a, b], axis=3)
Concatenate(a, b) == a \o b

derivative_solver(temperature, features) == ApplyLayer(temp1, Concatenate(temperature, features))

integral_solver(t_dot) == ApplyLayer(temp2, t_dot)

\* keras.layers.add([a, b])
Add(a, b) == [c \in 1 .. Len(a) |-> a[c] + b[c]]

\* A bug: the increment replaces the state instead of being added to it.
MutNextT(cur, t_dot) == integral_solver(t_dot)

\* next_T of one step (model.py lines 177-178).
NextT(cur, t_dot) == Add(cur, integral_solver(t_dot))

\* keras.layers.concatenate of the first n entries of a list, axis=3.
RECURSIVE ConcatList(_, _)
ConcatList(list, n) == IF n = 0 THEN <<>> ELSE ConcatList(list, n - 1) \o list[n]

FieldValues == {<<0, 0>>, <<1, -1>>, <<3, 2>>}

FeatureValues == {[j \in 1 .. FeatureChannels |-> v * j] : v \in {0, 1, -2}}

InitParc ==
    /\ ReshapeIdle /\ WaveIdle /\ SplitIdle /\ ParseIdle
    /\ mpc = "loop"
    /\ numTS \in 1 .. MaxNumTS
    /\ T0 \in FieldValues
    /\ feature_map \in FeatureValues
    /\ \E s1 \in 0 .. MaxSeed, s2 \in 0 .. MaxSeed :
        /\ temp1 = Layer(FieldChannels, FieldChannels + FeatureChannels, s1)
        /\ temp2 = Layer(FieldChannels, FieldChannels, s2)
    /\ current_T = T0
    /\ T_output_sr = <<>>
    /\ Tdot_output_sr = <<>>
    /\ step_i = 0
    /\ T_output = <<>>
    /\ Tdot_output = <<>>

\* One iteration of "for i in range(19)".
ParcStep ==
    /\ mpc = "loop"
    /\ step_i < LoopSteps
    /\ LET current_Tdot == derivative_solver(current_T, feature_map)
           next_T == NextT(current_T, current_Tdot)
       IN  /\ T_output_sr' = Append(T_output_sr, next_T)
           /\ Tdot_output_sr' = Append(Tdot_output_sr, current_Tdot)
           /\ current_T' = next_T
    /\ step_i' = step_i + 1
    /\ UNCHANGED <<mpc, numTS, T0, feature_map, temp1, temp2, T_output, Tdot_output, exceptParc>>

\* The two concatenations of entries 0..18 and the construction of the model.
ParcBuild ==
    /\ mpc = "loop"
    /\ step_i >= LoopSteps
    /\ T_output' = ConcatList(T_output_sr, 19)
    /\ Tdot_output' = ConcatList(Tdot_output_sr, 19)
    /\ mpc' = "built"
    /\ UNCHANGED <<numTS, T0, feature_map, temp1, temp2, current_T, T_output_sr,
                   Tdot_output_sr, step_i, exceptParc>>

NextParc == ParcStep \/ ParcBuild

SpecParc == InitParc /\ [][NextParc]_vars

\* The state S_(k-1) that step k starts from.
StateBefore(k) == IF k = 1 THEN T0 ELSE T_output_sr[k - 1]

\* C8: the integrator is a chain S0 -> S1 -> ... -> S19 with
\* rate_k = derivative(S_(k-1) ++ feature map), S_k = S_(k-1) +
\* integration(rate_k), the same two layers and the same feature map at
\* every step; the outputs are S1..S19 and rate_1..rate_19 concatenated
\* along the channel axis in step order, S0 not among them.
C8_Chain ==
    /\ Len(T_output_sr) = step_i /\ Len(Tdot_output_sr) = step_i
    /\ current_T = StateBefore(step_i + 1)
    /\ \A k \in 1 .. Len(T_output_sr) :
        /\ Tdot_output_sr[k] = ApplyLayer(temp1, StateBefore(k) \o feature_map)
        /\ T_output_sr[k] =
            [c \in 1 .. FieldChannels |->
                StateBefore(k)[c] + ApplyLayer(temp2, Tdot_output_sr[k])[c]]
    /\ mpc = "built" =>
        /\ step_i = 19
        /\ Len(T_output) = 19 * FieldChannels /\ Len(Tdot_output) = 19 * FieldChannels
        /\ \A k \in 1 .. 19 : \A c \in 1 .. FieldChannels :
            /\ T_output[FieldChannels * (k - 1) + c] = T_output_sr[k][c]
            /\ Tdot_output[FieldChannels * (k - 1) + c] = Tdot_output_sr[k][c]

C8_Integrator ==
    /\ []C8_Chain
    /\ [][temp1' = temp1 /\ temp2' = temp2 /\ feature_map' = feature_map /\ T0' = T0]_vars

\* A model has been built whose state changed along the chain and whose
\* rates are not all equal.
C8_Witness ==
    /\ mpc = "built"
    /\ T_output_sr[19] # T0
    /\ T_output_sr[2] # T_output_sr[1]
    /\ \E k \in 1 .. 19 : Tdot_output_sr[k] # Tdot_output_sr[1]

\* C9: the loop of a model built by parc(numTS = h) runs exactly h steps:
\* never more than h, and h states and h rates have been collected when
\* the model is built.
C9_HorizonIsNumTS ==
    /\ step_i <= numTS
    /\ mpc = "built" => (Len(T_output_sr) = numTS /\ Len(Tdot_output_sr) = numTS)

(***************************************************************************)
(* parse_data: raw files to normalized, downsampled tensors.               *)
(***************************************************************************)
\* The green channel of the microstructure images found in the directory,
\* img[row][column] with values 0..255.
Images ==
    { <<<<0, 255>>, <<255, 0>>>>,
      <<<<255, 200>>, <<150, 0>>>>,
      <<<<40, 40>>, <<40, 40>>>> }

\* The per-timestep field files of one case, as the flat value lists
\* np.loadtxt delivers: Temp_<t>.txt and pres_<t>.txt of a series.
SeriesKinds == {"ambient", "heating", "shock", "cooling"}

TempFile(kind, t) ==
    CASE kind = "ambient" -> <<300, 300, 300, 300>>
      [] kind = "heating" -> <<300 + 10 * t, 300 + 20 * t, 300, 300 + 50 * t>>
      [] kind = "shock" -> IF t % 2 = 1 THEN <<250, 4500, 400, 300>>
                           ELSE <<5000, 200, 310, 330>>
      [] OTHER -> <<700 - 100 * t, 350, 320 - 10 * t, 300>>

PresFile(kind, t) ==
    CASE kind = "ambient" -> <<0, 0, 0, 0>>
      [] kind = "heating" -> <<10 * t, 0, -5 * t, 20>>
      [] kind = "shock" -> <<-5, 20 * t, 0, 7>>
      [] OTHER -> <<3, 3, 3, 3>>

\* The values of del_t tried.
DelTs == {3, 5}

\* np.reshape(flat, (wd, ht))[x, y], row-major.
Reshape2(flat, wd, ht, x, y) == flat[x * ht + y + 1]

\* np.clip(v, 300, 4000)
ClipLow == 300

ClipHigh == 4000

\* A bug: the temperature is stored as read.
MutClip(v) == v

Clip(v) == IF v < ClipLow THEN ClipLow ELSE IF v > ClipHigh THEN ClipHigh ELSE v

\* np.full((width, height), 300.0) and np.full((width, height), 0)
InitialTemp == 300

InitialPress == 0

\* The time index at which the "previous" field is read for a timestep
\* t_idx > 1 (IO.py lines 99-100).
PreviousIndex(t_idx) == t_idx - 1

\* Values of one channel of a 5-D tensor.
ChannelValues(t, ch) == {t.data[i] : i \in {j \in DOMAIN t.data : j[5] = ch}}

\* Values of one channel of a 4-D tensor.
ChannelValues4(t, ch) == {t.data[i] : i \in {j \in DOMAIN t.data : j[4] = ch}}

InitParse ==
    /\ ReshapeIdle /\ WaveIdle /\ SplitIdle /\ ParcIdle
    /\ ppc = "start"
    /\ dir_data = [images |-> <<>>, series |-> <<>>, missing |-> "none"]
    /\ case_numbers = 0
    /\ time_steps \in 1 .. MaxTimeSteps
    /\ del_t \in DelTs
    /\ width = 0
    /\ height = 0
    /\ microstructure_data = NoTensor
    /\ output_data = NoTensor
    /\ initial_vals = NoTensor
    /\ normalizing_constants = <<>>
    /\ raw_output = NoTensor
    /\ case_idx = 0
    /\ time_idx = 0

\* Lines 24-45: the size of data_01.pgm, the number of directory entries
\* and the zero arrays.
OpenDirectory ==
    /\ ppc = "start"
    /\ \E img \in Images, n \in 1 .. MaxCases :
        /\ width' = Len(img[1])
        /\ height' = Len(img)
        /\ case_numbers' = n
        /\ microstructure_data' = [shape |-> <<n, Len(img[1]), Len(img), 2>>,
                data |-> [i \in Idx4(<<n, Len(img[1]), Len(img), 2>>) |-> R(0)]]
        /\ output_data' = [shape |-> <<n, Len(img[1]), Len(img), time_steps, 4>>,
                data |-> [i \in Idx5(<<n, Len(img[1]), Len(img), time_steps, 4>>) |-> R(0)]]
        /\ initial_vals' = [shape |-> <<n, Len(img[1]), Len(img), 2>>,
                data |-> [i \in Idx4(<<n, Len(img[1]), Len(img), 2>>) |-> R(0)]]
    /\ case_idx' = 1
    /\ ppc' = "case_loop"
    /\ UNCHANGED <<dir_data, time_steps, del_t, normalizing_constants, raw_output,
                   time_idx, exceptParse>>

\* Line 26 when the microstructure directory or data_01.pgm is absent:
\* Image.open raises FileNotFoundError.
OpenMissing ==
    /\ ppc = "start"
    /\ dir_data' = [dir_data EXCEPT !.missing = "data_01.pgm"]
    /\ ppc' = "FileNotFoundError"
    /\ UNCHANGED <<case_numbers, time_steps, del_t, width, height, microstructure_data,
                   output_data, initial_vals, normalizing_constants, raw_output,
                   case_idx, time_idx, exceptParse>>

\* Lines 53-54 when the image of a later case is absent (the directory
\* holds an entry of another name instead): cv2.imread returns None and
\* None[:, :, 1] raises TypeError.
LoadCaseMissing ==
    /\ ppc = "case_loop"
    /\ case_idx <= case_numbers
    /\ case_idx > 1
    /\ dir_data' = [dir_data EXCEPT !.missing = "image"]
    /\ ppc' = "TypeError"
    /\ UNCHANGED <<case_numbers, time_steps, del_t, width, height, microstructure_data,
                   output_data, initial_vals, normalizing_constants, raw_output,
                   case_idx, time_idx, exceptParse>>

\* Lines 48-64: the head of one iteration of the case loop.
LoadCase ==
    /\ ppc = "case_loop"
    /\ case_idx <= case_numbers
    /\ \E img \in Images, kind \in SeriesKinds :
        /\ dir_data' = [images |-> Append(dir_data.images, img),
                        series |-> Append(dir_data.series, kind),
                        missing |-> dir_data.missing]
        \* microstructure_data[:, :, :, 0] = img ; microstructure_data[:, :, :, 1] = wave_map
        /\ microstructure_data' = [microstructure_data EXCEPT !.data =
                [i \in DOMAIN microstructure_data.data |->
                    IF i[4] = 0 THEN R(img[i[2] + 1][i[3] + 1])
                    ELSE wave_map(width, height)[<<i[2], i[3]>>]]]
    /\ initial_vals' = [initial_vals EXCEPT !.data =
            [i \in DOMAIN initial_vals.data |->
                IF i[1] = case_idx - 1
                THEN (IF i[4] = 0 THEN R(InitialTemp) ELSE R(InitialPress))
                ELSE initial_vals.data[i]]]
    /\ time_idx' = 1
    /\ ppc' = "time_loop"
    /\ UNCHANGED <<case_numbers, time_steps, del_t, width, height, output_data,
                   normalizing_constants, raw_output, case_idx, exceptParse>>

\* output_data after lines 74-90 of timestep t_idx of case c_idx.
StoreFields(out, c_idx, t_idx, kind) ==
    [out EXCEPT !.data =
        [i \in DOMAIN out.data |->
            IF i[1] = c_idx - 1 /\ i[4] = t_idx - 1 /\ i[5] = 0
            THEN R(Clip(Reshape2(TempFile(kind, t_idx), out.shape[2], out.shape[3], i[2], i[3])))
            ELSE IF i[1] = c_idx - 1 /\ i[4] = t_idx - 1 /\ i[5] = 1
            THEN R(Reshape2(PresFile(kind, t_idx), out.shape[2], out.shape[3], i[2], i[3]))
            ELSE out.data[i]]]

\* output_data after lines 74-79 of timestep t_idx of case c_idx.
StoreTemp(out, c_idx, t_idx, kind) ==
    [out EXCEPT !.data =
        [i \in DOMAIN out.data |->
            IF i[1] = c_idx - 1 /\ i[4] = t_idx - 1 /\ i[5] = 0
            THEN R(Clip(Reshape2(TempFile(kind, t_idx), out.shape[2], out.shape[3], i[2], i[3])))
            ELSE out.data[i]]]

\* output_data after lines 92-106 of timestep t_idx of case c_idx.
StoreRates(out, init, c_idx, t_idx, dt) ==
    LET current(x, y, ch) == out.data[<<c_idx - 1, x, y, t_idx - 1, ch>>]
        previous(x, y, ch) ==
            IF t_idx = 1 THEN init.data[<<c_idx - 1, x, y, ch>>]
            ELSE out.data[<<c_idx - 1, x, y, PreviousIndex(t_idx), ch>>]
    IN  [out EXCEPT !.data =
            [i \in DOMAIN out.data |->
                IF i[1] = c_idx - 1 /\ i[4] = t_idx - 1 /\ i[5] \in {2, 3}
                THEN RDiv(RSub(current(i[2], i[3], i[5] - 2), previous(i[2], i[3], i[5] - 2)),
                          R(dt))
                ELSE out.data[i]]]

\* Lines 67-106: one iteration of the timestep loop.
LoadTimestep ==
    /\ ppc = "time_loop"
    /\ time_idx <= time_steps
    /\ output_data' = StoreRates(
            StoreFields(output_data, case_idx, time_idx, dir_data.series[case_idx]),
            initial_vals, case_idx, time_idx, del_t)
    /\ IF time_idx = time_steps
       THEN /\ case_idx' = case_idx + 1
            /\ ppc' = "case_loop"
       ELSE UNCHANGED <<case_idx, ppc>>
    /\ time_idx' = time_idx + 1
    /\ UNCHANGED <<dir_data, case_numbers, time_steps, del_t, width, height,
                   microstructure_data, initial_vals, normalizing_constants, raw_output,
                   exceptParse>>

\* Lines 74 and 87 when a file is absent: np.loadtxt raises OSError
\* (FileNotFoundError in recent numpy); when it is the pressure file, the
\* temperature of the timestep has already been stored (line 79).
LoadTimestepMissing ==
    /\ ppc = "time_loop"
    /\ time_idx <= time_steps
    /\ \E absent \in {"temp", "pres"} :
        /\ dir_data' = [dir_data EXCEPT !.missing = absent]
        /\ output_data' = IF absent = "temp" THEN output_data
                          ELSE StoreTemp(output_data, case_idx, time_idx,
                                         dir_data.series[case_idx])
    /\ ppc' = "OSError"
    /\ UNCHANGED <<case_numbers, time_steps, del_t, width, height, microstructure_data,
                   initial_vals, normalizing_constants, raw_output,
                   case_idx, time_idx, exceptParse>>

\* Lines 108-136: the dictionary of minima and maxima.
Constants(out) ==
    [Temperature |-> [min |-> RMin(ChannelValues(out, 0)), max |-> RMax(ChannelValues(out, 0))],
     Pressure |-> [min |-> RMin(ChannelValues(out, 1)), max |-> RMax(ChannelValues(out, 1))],
     Temperature_gradient |->
        [min |-> RMin(ChannelValues(out, 2)), max |-> RMax(ChannelValues(out, 2))],
     Pressure_gradient |->
        [min |-> RMin(ChannelValues(out, 3)), max |-> RMax(ChannelValues(out, 3))]]

ComputeConstants ==
    /\ ppc = "case_loop"
    /\ case_idx > case_numbers
    /\ normalizing_constants' = Constants(output_data)
    /\ raw_output' = output_data
    /\ ppc' = "normalize_fields"
    /\ UNCHANGED <<dir_data, case_numbers, time_steps, del_t, width, height,
                   microstructure_data, output_data, initial_vals, case_idx, time_idx,
                   exceptParse>>

\* A bug: the result is left in [0, 1].
MutRescale(v, norm_min, norm_max) == RDiv(RSub(v, norm_min), RSub(norm_max, norm_min))

\* Lines 142-147: (v - norm_min) / (norm_max - norm_min) * 2.0 - 1.0
Rescale(v, norm_min, norm_max) ==
    RSub(RMul(RDiv(RSub(v, norm_min), RSub(norm_max, norm_min)), R(2)), R(1))

\* Lines 140-147 for one channel.
NormalizeChannel(out, ch) ==
    LET norm_max == RMax(ChannelValues(out, ch))
        norm_min == RMin(ChannelValues(out, ch))
    IN  [out EXCEPT !.data =
            [i \in DOMAIN out.data |->
                IF i[5] = ch THEN Rescale(out.data[i], norm_min, norm_max)
                ELSE out.data[i]]]

\* Lines 139-148: for channel in range(0, 4).
RECURSIVE NormalizeLoop(_, _)
NormalizeLoop(out, ch) ==
    IF ch >= 4 THEN out ELSE NormalizeLoop(NormalizeChannel(out, ch), ch + 1)

NormalizeFields ==
    /\ ppc = "normalize_fields"
    /\ output_data' = NormalizeLoop(output_data, 0)
    /\ ppc' = "normalize_micro"
    /\ UNCHANGED <<dir_data, case_numbers, time_steps, del_t, width, height,
                   microstructure_data, initial_vals, normalizing_constants, raw_output,
                   case_idx, time_idx, exceptParse>>

\* Lines 151-162 for one channel: rescale to [0, 1].
UnitScale(mic, ch) ==
    LET lo == RMin(ChannelValues4(mic, ch))
        hi == RMax(ChannelValues4(mic, ch))
    IN  [mic EXCEPT !.data =
            [i \in DOMAIN mic.data |->
                IF i[4] = ch THEN RDiv(RSub(mic.data[i], lo), RSub(hi, lo))
                ELSE mic.data[i]]]

\* A bug: the value is kept instead of the result of the comparison.
MutThreshold(v, thr) == v

\* The value stored for "v > thr": 1.0 or 0.0.
Threshold(v, thr) == IF RGreater(v, thr) THEN R(1) ELSE R(0)

\* Line 163: channel 0 = channel 0 > 0.5
Binarize(mic) ==
    [mic EXCEPT !.data =
        [i \in DOMAIN mic.data |->
            IF i[4] = 0 THEN Threshold(mic.data[i], Norm(1, 2)) ELSE mic.data[i]]]

\* Line 164: microstructure_data * 2.0 - 1.0
Signed(mic) ==
    [mic EXCEPT !.data =
        [i \in DOMAIN mic.data |-> RSub(RMul(mic.data[i], R(2)), R(1))]]

NormalizeMicro ==
    /\ ppc = "normalize_micro"
    /\ microstructure_data' = Signed(Binarize(UnitScale(UnitScale(microstructure_data, 0), 1)))
    /\ ppc' = "crop"
    /\ UNCHANGED <<dir_data, case_numbers, time_steps, del_t, width, height,
                   output_data, initial_vals, normalizing_constants, raw_output,
                   case_idx, time_idx, exceptParse>>

\* The crop length of lines 166-167.
CropSize == 480

\* t[:, :480, :480, ...]
Crop5(t) ==
    LET s == <<t.shape[1], Min2(t.shape[2], CropSize), Min2(t.shape[3], CropSize),
               t.shape[4], t.shape[5]>>
    IN  [shape |-> s, data |-> [i \in Idx5(s) |-> t.data[i]]]

Crop4(t) ==
    LET s == <<t.shape[1], Min2(t.shape[2], CropSize), Min2(t.shape[3], CropSize), t.shape[4]>>
    IN  [shape |-> s, data |-> [i \in Idx4(s) |-> t.data[i]]]

CropTensors ==
    /\ ppc = "crop"
    /\ output_data' = Crop5(output_data)
    /\ microstructure_data' = Crop4(microstructure_data)
    /\ ppc' = "block_reduce"
    /\ UNCHANGED <<dir_data, case_numbers, time_steps, del_t, width, height,
                   initial_vals, normalizing_constants, raw_output,
                   case_idx, time_idx, exceptParse>>

\* The block length of lines 170-173.
BlockSize == 2

\* Number of blocks along an axis of length n; block_reduce pads the last
\* block with zeros.
Blocks(n) == (n + BlockSize - 1) \div BlockSize

\* The cells of block b along one axis.
BlockCells(b) == (b * BlockSize) .. (b * BlockSize + BlockSize - 1)

RECURSIVE RSum(_, _)
RSum(f, S) == IF S = {} THEN R(0) ELSE LET e == CHOOSE x \in S : TRUE
                                       IN  RAdd(f[e], RSum(f, S \ {e}))

\* skimage.measure.block_reduce(output_data, (1, 2, 2, 1, 1), np.max)
BlockMax5(t) ==
    LET s == <<t.shape[1], Blocks(t.shape[2]), Blocks(t.shape[3]), t.shape[4], t.shape[5]>>
        cell(i, x, y) == IF x < t.shape[2] /\ y < t.shape[3]
                         THEN t.data[<<i[1], x, y, i[4], i[5]>>] ELSE R(0)
    IN  [shape |-> s,
         data |-> [i \in Idx5(s) |->
            RMax({cell(i, x, y) : x \in BlockCells(i[2]), y \in BlockCells(i[3])})]]

\* skimage.measure.block_reduce(microstructure_data, (1, 2, 2, 1), np.mean)
BlockMean4(t) ==
    LET s == <<t.shape[1], Blocks(t.shape[2]), Blocks(t.shape[3]), t.shape[4]>>
        cell(i, x, y) == IF x < t.shape[2] /\ y < t.shape[3]
                         THEN t.data[<<i[1], x, y, i[4]>>] ELSE R(0)
    IN  [shape |-> s,
         data |-> [i \in Idx4(s) |->
            LET cells == BlockCells(i[2]) \X BlockCells(i[3])
                vals == [c \in cells |-> cell(i, c[1], c[2])]
            IN  RDiv(RSum(vals, cells), R(BlockSize * BlockSize))]]

BlockReduce ==
    /\ ppc = "block_reduce"
    /\ output_data' = BlockMax5(output_data)
    /\ microstructure_data' = BlockMean4(microstructure_data)
    /\ ppc' = "rethreshold"
    /\ UNCHANGED <<dir_data, case_numbers, time_steps, del_t, width, height,
                   initial_vals, normalizing_constants, raw_output,
                   case_idx, time_idx, exceptParse>>

\* A bug: a pooled mean of exactly 0 becomes +1.
MutRebinarize(mic) ==
    [mic EXCEPT !.data =
        [i \in DOMAIN mic.data |->
            IF i[4] = 0 THEN (IF RLeq(R(0), mic.data[i]) THEN R(1) ELSE R(-1))
            ELSE mic.data[i]]]

\* Lines 174-175: channel 0 = (channel 0 > 0) * 2.0 - 1.0
Rebinarize(mic) ==
    [mic EXCEPT !.data =
        [i \in DOMAIN mic.data |->
            IF i[4] = 0 THEN RSub(RMul(Threshold(mic.data[i], R(0)), R(2)), R(1))
            ELSE mic.data[i]]]

RethresholdAndReturn ==
    /\ ppc = "rethreshold"
    /\ microstructure_data' = Rebinarize(microstructure_data)
    /\ ppc' = "returned"
    /\ UNCHANGED <<dir_data, case_numbers, time_steps, del_t, width, height,
                   output_data, initial_vals, normalizing_constants, raw_output,
                   case_idx, time_idx, exceptParse>>

Next ==
    \/ OpenDirectory
    \/ OpenMissing
    \/ LoadCase
    \/ LoadCaseMissing
    \/ LoadTimestep
    \/ LoadTimestepMissing
    \/ ComputeConstants
    \/ NormalizeFields
    \/ NormalizeMicro
    \/ CropTensors
    \/ BlockReduce
    \/ RethresholdAndReturn

Init == InitParse

Spec == Init /\ [][Next]_vars

(***************************************************************************)
(* Properties of parse_data.                                               *)
(***************************************************************************)
\* C2: once every case is loaded, for every case, pixel and timestep t the
\* stored rate channels are (current - previous) / del_t, previous being
\* the initial value (300, 0) for t = 1 and the same case's stored field
\* of timestep t-1 for t > 1.
C2_RatesAreForwardDifferences ==
    ppc = "normalize_fields" =>
        \A i \in DOMAIN output_data.data :
            i[5] \in {2, 3} =>
                LET current == output_data.data[<<i[1], i[2], i[3], i[4], i[5] - 2>>]
                    previous ==
                        IF i[4] = 0 THEN (IF i[5] = 2 THEN R(300) ELSE R(0))
                        ELSE output_data.data[<<i[1], i[2], i[3], i[4] - 1, i[5] - 2>>]
                IN  output_data.data[i] = RDiv(RSub(current, previous), R(del_t))

\* The raw values of a field channel are not all equal.
NonConstant(ch) == \E a, b \in ChannelValues(raw_output, ch) : a # b

\* a <= b for finite rationals.
LeqQ(a, b) == a[1] * b[2] <= b[1] * a[2]

\* C6: right after the field normalization, every field channel that is
\* not constant has minimum exactly -1 and maximum exactly +1 over all
\* cases, pixels and timesteps, and every value v comes from its raw value
\* x by v = 2 (x - min) / (max - min) - 1.
C6_FieldsNormalized ==
    ppc \in {"normalize_micro", "crop"} =>
        \A ch \in 0 .. 3 :
            NonConstant(ch) =>
                LET raw == ChannelValues(raw_output, ch)
                    lo == CHOOSE m \in raw : \A v \in raw : LeqQ(m, v)
                    hi == CHOOSE m \in raw : \A v \in raw : LeqQ(v, m)
                    idx == {i \in DOMAIN output_data.data : i[5] = ch}
                IN  /\ \E i \in idx : output_data.data[i] = <<-1, 1>>
                    /\ \E i \in idx : output_data.data[i] = <<1, 1>>
                    /\ \A i \in idx :
                        /\ output_data.data[i][2] > 0
                        /\ LeqQ(<<-1, 1>>, output_data.data[i])
                        /\ LeqQ(output_data.data[i], <<1, 1>>)
                        /\ RMul(RAdd(output_data.data[i], <<1, 1>>), RSub(hi, lo))
                            = RMul(<<2, 1>>, RSub(raw_output.data[i], lo))

\* Two cases of two timesteps have been normalized, no field channel was
\* constant and some value lies strictly between -1 and +1.
C6_Witness ==
    /\ ppc = "normalize_micro"
    /\ case_numbers = 2 /\ time_steps = 2
    /\ \A ch \in 0 .. 3 : NonConstant(ch)
    /\ \E i \in DOMAIN output_data.data : output_data.data[i] \notin {<<-1, 1>>, <<1, 1>>}

\* C7: every value of channel 0 of the microstructure tensor is -1 or +1
\* after the first binarization and in the tensor parse_data returns.
C7_IndicatorSigned ==
    ppc \in {"crop", "block_reduce", "returned"} =>
        \A i \in DOMAIN microstructure_data.data :
            i[4] = 0 => microstructure_data.data[i] \in {<<-1, 1>>, <<1, 1>>}

\* parse_data has returned an indicator of +1 obtained by pooling a block
\* that held both -1 and +1.
C7_Witness ==
    /\ ppc = "returned"
    /\ microstructure_data.data[<<0, 0, 0, 0>>] = <<1, 1>>
    /\ dir_data.images[case_numbers] = <<<<255, 200>>, <<150, 0>>>>

\* C14: once every case has been iterated over, the microstructure entry
\* of every case holds in channel 0 the image read for that very case and
\* in channel 1 the wave map.
C14_OwnImage ==
    ppc = "normalize_fields" =>
        \A i \in DOMAIN microstructure_data.data :
            /\ i[4] = 0 =>
                microstructure_data.data[i] = R(dir_data.images[i[1] + 1][i[2] + 1][i[3] + 1])
            /\ i[4] = 1 =>
                microstructure_data.data[i] =
                    (IF i[3] = 0 THEN R(0) ELSE Norm(i[3], width))

\* The timesteps (case, time), 0-based, whose files have been stored.
Loaded ==
    {ct \in Range(case_numbers) \X Range(time_steps) :
        \/ ppc \notin {"start", "case_loop", "time_loop"}
        \/ ct[1] < case_idx - 1
        \/ (ct[1] = case_idx - 1 /\ ppc = "time_loop" /\ ct[2] < time_idx - 1)}

\* The value at pixel (x, y) of a flat file of a width-by-height grid.
FileValue(flat, x, y) == flat[x * height + y + 1]

\* C15: before normalization every stored temperature is the value read,
\* clipped into [300, 4000]; the temperature rates are computed from the
\* clipped values; the recorded Temperature minimum and maximum lie in
\* [300, 4000]; pressures are stored exactly as read.
C15_ClippedBeforeRates ==
    ppc \in {"case_loop", "time_loop", "normalize_fields"} =>
        /\ \A ct \in Loaded : \A x \in Range(width), y \in Range(height) :
            LET kind == dir_data.series[ct[1] + 1]
                read_T == FileValue(TempFile(kind, ct[2] + 1), x, y)
                read_P == FileValue(PresFile(kind, ct[2] + 1), x, y)
                T == output_data.data[<<ct[1], x, y, ct[2], 0>>]
                P == output_data.data[<<ct[1], x, y, ct[2], 1>>]
                Tdot == output_data.data[<<ct[1], x, y, ct[2], 2>>]
            IN  /\ T[2] = 1 /\ T[1] >= 300 /\ T[1] <= 4000
                /\ T[1] = (IF read_T < 300 THEN 300 ELSE IF read_T > 4000 THEN 4000 ELSE read_T)
                /\ P = <<read_P, 1>>
                /\ ct[2] = 0 => Tdot = Norm(T[1] - 300, del_t)
                /\ LeqQ(Tdot, Norm(3700, del_t)) /\ LeqQ(Norm(-3700, del_t), Tdot)
        /\ ppc = "normalize_fields" =>
            /\ LeqQ(<<300, 1>>, normalizing_constants.Temperature.min)
            /\ LeqQ(normalizing_constants.Temperature.max, <<4000, 1>>)
            /\ \E ct \in Loaded : \E x \in Range(width), y \in Range(height) :
                normalizing_constants.Pressure.min =
                    <<FileValue(PresFile(dir_data.series[ct[1] + 1], ct[2] + 1), x, y), 1>>

\* The constants have been taken from a dataset whose temperature files
\* hold values below 300 and above 4000 and whose pressures are negative
\* at some pixel.
C15_Witness ==
    /\ ppc = "normalize_fields"
    /\ time_steps = 2
    /\ \E c \in 1 .. case_numbers : dir_data.series[c] = "shock"
    /\ normalizing_constants.Temperature.max = <<4000, 1>>
    /\ normalizing_constants.Temperature.min = <<300, 1>>
    /\ normalizing_constants.Pressure.min = <<-5, 1>>

\* C13: when a field channel of the raw tensor is constant, parse_data does
\* not get past the field normalization (it stops in the state
\* DegenerateChannelError) and no value of the output tensor is NaN.
C13_DegenerateChannelRejected ==
    \A ch \in 0 .. 3 :
        (raw_output # NoTensor /\ ~NonConstant(ch)) =>
            /\ ppc \in {"normalize_fields", "DegenerateChannelError"}
            /\ \A i \in DOMAIN output_data.data : ~IsNaN(output_data.data[i])

\* The constants recorded for channel ch.
ConstantsOf(ch) ==
    CASE ch = 0 -> normalizing_constants.Temperature
      [] ch = 1 -> normalizing_constants.Pressure
      [] ch = 2 -> normalizing_constants.Temperature_gradient
      [] OTHER -> normalizing_constants.Pressure_gradient

\* min_c + (x' + 1) * (max_c - min_c) / 2
Denormalize(v, ch) ==
    RAdd(ConstantsOf(ch).min,
         RDiv(RMul(RAdd(v, R(1)), RSub(ConstantsOf(ch).max, ConstantsOf(ch).min)), R(2)))

\* The returned constants are the least and the greatest raw value of
\* channel ch.
GlobalExtrema(ch) ==
    LET raw == ChannelValues(raw_output, ch)
    IN  /\ ConstantsOf(ch).min \in raw /\ ConstantsOf(ch).max \in raw
        /\ \A v \in raw : LeqQ(ConstantsOf(ch).min, v) /\ LeqQ(v, ConstantsOf(ch).max)

\* Every returned value of channel ch denormalizes to the raw value of a
\* pixel of the block it was pooled from.
Recovers(ch) ==
    \A i \in DOMAIN output_data.data :
        i[5] = ch =>
            \E x \in BlockCells(i[2]), y \in BlockCells(i[3]) :
                Denormalize(output_data.data[i], ch) = raw_output.data[<<i[1], x, y, i[4], i[5]>>]

\* C16: in the result of parse_data the constants of each of the four
\* channels are the global minimum and maximum of the raw tensor, and every
\* returned field value x' satisfies min + (x' + 1) (max - min) / 2 = the
\* raw value it came from.
C16_ConstantsInvert ==
    ppc = "returned" => \A ch \in 0 .. 3 : GlobalExtrema(ch) /\ Recovers(ch)

\* The part of C16 that the code satisfies: the constants are the global
\* raw extrema, and the inversion recovers the raw values of every channel
\* that is not constant.
C16_NonConstantInvert ==
    ppc = "returned" =>
        \A ch \in 0 .. 3 : GlobalExtrema(ch) /\ (NonConstant(ch) => Recovers(ch))

\* The states in which parse_data has been left by an exception.
Aborted == ppc \in {"FileNotFoundError", "TypeError", "OSError", "MissingDataError"}

\* C12: whenever the directory, an image or a temperature or pressure file
\* was found missing, parse_data has failed with MissingDataError, and a
\* result is returned only when nothing was missing.
C12_MissingDataError ==
    /\ dir_data.missing # "none" => ppc = "MissingDataError"
    /\ ppc = "returned" => dir_data.missing = "none"

\* What the code does for C12: a missing file ends parse_data with
\* FileNotFoundError (Image.open), TypeError (cv2.imread) or OSError
\* (np.loadtxt), and a result is returned only when nothing was missing.
C12_AbortsWithBuiltinError ==
    /\ dir_data.missing = "data_01.pgm" <=> ppc = "FileNotFoundError"
    /\ dir_data.missing = "image" <=> ppc = "TypeError"
    /\ dir_data.missing \in {"temp", "pres"} <=> ppc = "OSError"
    /\ ppc = "returned" => dir_data.missing = "none"

\* After the exception parse_data does nothing more: no step starts in an
\* aborted state.
C12_NothingAfterAbort == [][~Aborted]_vars

\* ---------------------------------------------------------------------
\* The downsampling step of parse_data (lines 166-175) on its own, applied
\* to normalized tensors of several sizes.
\* ---------------------------------------------------------------------

\* Sizes (axis 1, axis 2) of the tensors entering the step.
DownsampleShapes == {<<2, 2>>, <<4, 4>>, <<3, 2>>, <<482, 2>>, <<481, 2>>, <<2, 482>>}

MaxPattern == 3

MaxFieldPattern == 1

\* A binarized indicator (line 163-164): +1 or -1 at every pixel.
IndicatorPattern(p, x, y) ==
    CASE p = 0 -> R(1)
      [] p = 1 -> IF (x + y) % 2 = 0 THEN R(1) ELSE R(-1)
      [] p = 2 -> IF x % 4 < 2 \/ (x % 2 = 0 /\ y % 2 = 0) THEN R(1) ELSE R(-1)
      [] OTHER -> IF x % 4 < 2
                  THEN (IF (x + y) % 2 = 0 THEN R(1) ELSE R(-1))
                  ELSE (IF x % 2 = 0 /\ y % 2 = 0 THEN R(-1) ELSE R(1))

\* The normalized wave map (lines 157-164): 2 * y / (ht - 1) - 1.
WavePattern(y, ht) == Norm(2 * y - (ht - 1), ht - 1)

\* A normalized field value (lines 142-147), in [-1, 1].
FieldPattern(q, x, y, ch) == Norm(((3 * x + (q + 1) * y + 2 * ch + q) % 5) - 2, 2)

InitDownsample ==
    /\ ReshapeIdle /\ WaveIdle /\ SplitIdle /\ ParcIdle
    /\ ppc = "crop"
    /\ dir_data = [images |-> <<>>, series |-> <<>>, missing |-> "none"]
    /\ case_numbers = 1
    /\ time_steps = 1
    /\ del_t = 3
    /\ \E s \in DownsampleShapes, p \in 0 .. MaxPattern, q \in 0 .. MaxFieldPattern :
        /\ width = s[1]
        /\ height = s[2]
        /\ microstructure_data = [shape |-> <<1, s[1], s[2], 2>>,
                data |-> [i \in Idx4(<<1, s[1], s[2], 2>>) |->
                    IF i[4] = 0 THEN IndicatorPattern(p, i[2], i[3])
                    ELSE WavePattern(i[3], s[2])]]
        /\ output_data = [shape |-> <<1, s[1], s[2], 1, 4>>,
                data |-> [i \in Idx5(<<1, s[1], s[2], 1, 4>>) |->
                    FieldPattern(q, i[2], i[3], i[5])]]
    /\ initial_vals = NoTensor
    /\ normalizing_constants = <<>>
    /\ raw_output = NoTensor
    /\ case_idx = 2
    /\ time_idx = 2

NextDownsample ==
    \/ CropTensors
    \/ BlockReduce
    \/ RethresholdAndReturn

SpecDownsample == InitDownsample /\ [][NextDownsample]_vars

\* The tensor new holds exactly the entries of old whose indices along
\* axes 1 and 2 are below 480.
FirstPixels(old, new) ==
    /\ DOMAIN new.data = {i \in DOMAIN old.data : i[2] < 480 /\ i[3] < 480}
    /\ \A i \in DOMAIN new.data : new.data[i] = old.data[i]

\* Block (bx, by) lies wholly inside a tensor of the shape s.
WholeBlock(s, bx, by) == 2 * bx + 1 < s[2] /\ 2 * by + 1 < s[3]

\* The tensor new has one pixel per 2x2 block of old, and the pixel of
\* every whole block is the greatest of its four values.
PooledByMax(old, new) ==
    /\ new.shape[2] = (old.shape[2] + 1) \div 2
    /\ new.shape[3] = (old.shape[3] + 1) \div 2
    /\ \A i \in DOMAIN new.data :
        WholeBlock(old.shape, i[2], i[3]) =>
            LET four == {old.data[<<i[1], 2 * i[2] + a, 2 * i[3] + b, i[4], i[5]>>] :
                            a \in {0, 1}, b \in {0, 1}}
            IN  new.data[i] \in four /\ \A v \in four : LeqQ(v, new.data[i])

\* The tensor new has one pixel per 2x2 block of old, and four times the
\* pixel of every whole block is the sum of its four values.
PooledByMean(old, new) ==
    /\ new.shape[2] = (old.shape[2] + 1) \div 2
    /\ new.shape[3] = (old.shape[3] + 1) \div 2
    /\ \A i \in DOMAIN new.data :
        WholeBlock(old.shape, i[2], i[3]) =>
            LET at(a, b) == old.data[<<i[1], 2 * i[2] + a, 2 * i[3] + b, i[4]>>]
            IN  RMul(R(4), new.data[i]) =
                    RAdd(RAdd(at(0, 0), at(0, 1)), RAdd(at(1, 0), at(1, 1)))

\* Channel 0 of new is +1 where the mean in old is positive and -1 where
\* it is zero or negative; channel 1 is the mean itself.
SignOfMean(old, new) ==
    /\ DOMAIN new.data = DOMAIN old.data
    /\ \A i \in DOMAIN old.data :
        /\ (i[4] = 0 /\ old.data[i][1] > 0) => new.data[i] = <<1, 1>>
        /\ (i[4] = 0 /\ old.data[i][1] <= 0) => new.data[i] = <<-1, 1>>
        /\ i[4] = 1 => new.data[i] = old.data[i]

\* C11: the downsampling step keeps the first 480x480 pixels of both
\* tensors, then reduces every 2x2 block to one pixel, by the maximum for
\* the field channels and by the mean for the microstructure channels,
\* then sets the indicator channel to +1 where the block mean is > 0 and to
\* -1 otherwise (a block of two +1 and two -1 becomes -1) and leaves the
\* wave-map channel as the mean.
C11_Downsampling ==
    [][ /\ ppc = "crop" =>
            /\ FirstPixels(output_data, output_data')
            /\ FirstPixels(microstructure_data, microstructure_data')
        /\ ppc = "block_reduce" =>
            /\ PooledByMax(output_data, output_data')
            /\ PooledByMean(microstructure_data, microstructure_data')
        /\ ppc = "rethreshold" =>
            /\ SignOfMean(microstructure_data, microstructure_data')
            /\ output_data' = output_data ]_vars

\* A tensor 482 pixels long has been downsampled to 240 pixels; the
\* returned indicator holds both signs and the returned wave map a mean
\* strictly between -1 and +1.
C11_Witness ==
    /\ ppc = "returned"
    /\ width = 482 \/ height = 482
    /\ output_data.shape[2] = 240 \/ output_data.shape[3] = 240
    /\ microstructure_data.shape = <<1, output_data.shape[2], output_data.shape[3], 2>>
    /\ \E i, j \in DOMAIN microstructure_data.data :
        /\ i[4] = 0 /\ microstructure_data.data[i] = <<1, 1>>
        /\ j[4] = 0 /\ microstructure_data.data[j] = <<-1, 1>>
    /\ \E i \in DOMAIN microstructure_data.data :
        i[4] = 1 /\ microstructure_data.data[i] \notin {<<-1, 1>>, <<1, 1>>}

\* The pooled indicator of a tensor 482 pixels long holds a mean of
\* exactly 0 (a block of two +1 and two -1) that is about to be
\* thresholded.
C11_TieBlock ==
    /\ ppc = "rethreshold"
    /\ microstructure_data.shape[2] = 240
    /\ \E i \in DOMAIN microstructure_data.data :
        i[4] = 0 /\ microstructure_data.data[i] = <<0, 1>>

====
